---- MODULE Spec2Model ----
(***************************************************************************)
(* A model of obd_influx: the InfluxPacketBuilder, the converter factory,  *)
(* the recorder factory and the Scanner with its scanning thread.          *)
(*                                                                         *)
(* Python values are modelled as tagged records: [kind |-> "str", v |-> s] *)
(* is a str, [kind |-> "num", v |-> n] a number (float or int) and         *)
(* [kind |-> "list", v |-> <<...>>] a list.  An operation that can raise   *)
(* returns a record whose field ok tells whether it returned, and whose    *)
(* field err names the exception otherwise.                                *)
(***************************************************************************)
EXTENDS Integers, Sequences, FiniteSets, TLC

\* Bounds of the model
MaxLen == 3        \* longest list handed to add_tags / add_fields
MaxSeconds == 1    \* largest timestamp, in whole seconds
MaxCommands == 2   \* longest list of commands a Scanner is built with
MaxCycles == 3     \* cycles one scanning thread may begin
MaxShutdowns == 2  \* calls of shutdown() on one Scanner
HzSpan == 9        \* whole frequencies from OBD_MAX_FREQUENCY - HzSpan on

VARIABLES
    packet,        \* InfluxPacketBuilder._packet
    last,          \* the last builder call: its name and outcome
    hist,          \* which calls have returned since the last start_packet
    converters,    \* InfluxDBConverterFactory._converters
    rlast,         \* the last factory call: its name, argument and outcome
    cr_in,         \* the arguments of a create_recorder call
    cr_out,        \* what the call returned or raised, once it has
    loop_time,     \* Scanner._loop_time, a float
    flast,         \* the last use of Scanner.frequency: set or get
    commands,      \* Scanner._commands, by name
    obd_connected, \* Scanner.obd_connection.is_connected()
    e_shutdown,    \* Scanner._e_shutdown is set
    wpc,           \* where the scanning thread is; "none": no thread yet
    cmd_ndx,       \* _scan_loop's cmd_ndx
    scan_response, \* _scan_loop's response
    crash,         \* the exception that ended the scanning thread, if any
    queried,       \* the indices the scanning thread has queried, in order
    recorded,      \* how many times the scanning thread has called record
    threads,       \* how many scanning threads are alive
    slept,         \* what the last time.sleep was given, and the period then
    cpc,           \* where the caller is: "idle" between two calls
    begun,         \* when shutdown() was called: is_scanning, is_connected
                   \* and the call that came before
    steps,         \* what the last shutdown() has done so far
    closes,        \* how many times Recorder.close() was called
    lastcall,      \* the call the caller made last
    logged,        \* the error that call logged, "" if none
    obd_access,    \* the caller's last use of obd_connection
    ctor_in,       \* the arguments of a construction of a Scanner
    ctor_out       \* what the construction did, once it has

builderVars == <<packet, last, hist>>
registryVars == <<converters, rlast>>
recorderVars == <<cr_in, cr_out>>
frequencyVars == <<loop_time, flast>>
threadVars == <<wpc, cmd_ndx, scan_response, crash, queried, recorded, threads,
                slept>>
callerVars == <<cpc, begun, steps, closes, lastcall, logged, obd_access>>
scannerVars == <<commands, obd_connected, e_shutdown, threadVars, callerVars>>
vars == <<packet, last, hist, converters, rlast, cr_in, cr_out, loop_time,
          flast, commands, obd_connected, e_shutdown, wpc, cmd_ndx,
          scan_response, crash, queried, recorded, threads, slept, cpc, begun,
          steps, closes, lastcall, logged, obd_access, ctor_in, ctor_out>>
constructVars == <<ctor_in, ctor_out>>
notBuilderVars == <<registryVars, recorderVars, frequencyVars, scannerVars,
                    constructVars>>
notRegistryVars == <<builderVars, recorderVars, frequencyVars, scannerVars,
                     constructVars>>
notRecorderVars == <<builderVars, registryVars, frequencyVars, scannerVars,
                     constructVars>>
notFrequencyVars == <<builderVars, registryVars, recorderVars, scannerVars,
                      constructVars>>
notScannerVars == <<builderVars, registryVars, recorderVars, frequencyVars,
                    constructVars>>

(***************************************************************************)
(* Python values                                                           *)
(***************************************************************************)
Str(s) == [kind |-> "str", v |-> s]
Num(n) == [kind |-> "num", v |-> n]
List(q) == [kind |-> "list", v |-> q]

NoError == "none"

\* an empty dict
EmptyDict == [k \in {} |-> Num(0)]

\* d[key] = value on a dict
DictSet(d, key, value) ==
    [k \in DOMAIN d \cup {key} |-> IF k = key THEN value ELSE d[k]]

(***************************************************************************)
(* InfluxPacketBuilder (storage.py)                                        *)
(***************************************************************************)
\* self._packet = None
NoPacket ==
    [started |-> FALSE, measurement |-> "", timed |-> FALSE, time |-> 0,
     tags |-> EmptyDict, fields |-> EmptyDict]

\* a start_packet that stamps the packet it starts
start_packet_stamped(measurement) ==
    [started |-> TRUE, measurement |-> measurement, timed |-> TRUE,
     time |-> 0, tags |-> EmptyDict, fields |-> EmptyDict]

\* the dict start_packet builds: 'time' is None, 'tags' and 'fields' empty
start_packet(measurement) ==
    [started |-> TRUE, measurement |-> measurement, timed |-> FALSE,
     time |-> 0, tags |-> EmptyDict, fields |-> EmptyDict]

\* InfluxPacketBuilder(measurement): starts a packet if a measurement is given
NewBuilder(given, measurement) ==
    IF given THEN start_packet(measurement) ELSE NoPacket

\* if isinstance(x, str): x = [x]
WrapStr(x) == IF x.kind = "str" THEN List(<<x>>) ELSE x

\* len(x) is defined for a list (and a str), not for a number
HasLen(x) == x.kind \in {"list", "str"}

RECURSIVE ZipInto(_, _, _)
\* for name, value in zip(names, values): d[name] = value
ZipInto(d, names, values) ==
    IF names = << >> \/ values = << >> THEN d
    ELSE ZipInto(DictSet(d, Head(names).v, Head(values)),
                 Tail(names), Tail(values))

\* add_tags / add_fields without the comparison of the lengths: zip() stops
\* at the shorter list
AddEntriesUnchecked(p, slot, names, values) ==
    LET ns == WrapStr(names)
        vs == WrapStr(values)
    IN  IF ~HasLen(vs)
        THEN [ok |-> FALSE, err |-> "TypeError: no len()", packet |-> p]
        ELSE IF Len(ns.v) > 0 /\ Len(vs.v) > 0 /\ ~p.started
        THEN [ok |-> FALSE, err |-> "TypeError: NoneType", packet |-> p]
        ELSE [ok |-> TRUE, err |-> NoError,
              packet |-> [p EXCEPT ![slot] = ZipInto(p[slot], ns.v, vs.v)]]

\* the body shared by add_tags and add_fields, on the dict named by slot
AddEntries(p, slot, names, values) ==
    LET ns == WrapStr(names)
        vs == WrapStr(values)
    IN  IF ~HasLen(vs)
        THEN [ok |-> FALSE, err |-> "TypeError: no len()", packet |-> p]
        ELSE IF Len(ns.v) # Len(vs.v)
        THEN [ok |-> FALSE, err |-> "TypeError: different numbers",
              packet |-> p]
        ELSE IF Len(ns.v) > 0 /\ ~p.started
        THEN [ok |-> FALSE, err |-> "TypeError: NoneType", packet |-> p]
        ELSE [ok |-> TRUE, err |-> NoError,
              packet |-> [p EXCEPT ![slot] = ZipInto(p[slot], ns.v, vs.v)]]

add_tags(p, tags, values) == AddEntries(p, "tags", tags, values)

add_fields(p, fields, values) == AddEntries(p, "fields", fields, values)

\* int(tstamp * 1e9), for a timestamp of whole seconds
NanosPerSecond == 1000000000

add_timestamp(p, tstamp) ==
    IF ~p.started
    THEN [ok |-> FALSE, err |-> "TypeError: NoneType", packet |-> p]
    ELSE [ok |-> TRUE, err |-> NoError,
          packet |-> [p EXCEPT !.timed = TRUE,
                               !.time = tstamp * NanosPerSecond]]

\* what json.dumps(self._packet) writes: the four entries of the dict
Json(p) ==
    [measurement |-> p.measurement, time |-> p.time,
     tags |-> p.tags, fields |-> p.fields]

NoJson == Json(NoPacket)

\* to_json looking at the fields before the timestamp
to_json_fields_first(p) ==
    IF ~p.started
    THEN [ok |-> FALSE, err |-> "RuntimeError: not started", json |-> NoJson]
    ELSE IF Cardinality(DOMAIN p.fields) = 0
    THEN [ok |-> FALSE, err |-> "RuntimeError: no fields", json |-> NoJson]
    ELSE IF ~p.timed
    THEN [ok |-> FALSE, err |-> "RuntimeError: not timestamped",
          json |-> NoJson]
    ELSE [ok |-> TRUE, err |-> NoError, json |-> Json(p)]

to_json(p) ==
    IF ~p.started
    THEN [ok |-> FALSE, err |-> "RuntimeError: not started", json |-> NoJson]
    ELSE IF ~p.timed
    THEN [ok |-> FALSE, err |-> "RuntimeError: not timestamped",
          json |-> NoJson]
    ELSE IF Cardinality(DOMAIN p.fields) = 0
    THEN [ok |-> FALSE, err |-> "RuntimeError: no fields", json |-> NoJson]
    ELSE [ok |-> TRUE, err |-> NoError, json |-> Json(p)]

\* the timestamp and measurement properties: None before start_packet
timestamp(p) ==
    IF ~p.started THEN [none |-> TRUE, v |-> 0]
    ELSE [none |-> ~p.timed, v |-> p.time]

measurement(p) ==
    IF ~p.started THEN [none |-> TRUE, v |-> ""]
    ELSE [none |-> FALSE, v |-> p.measurement]

(***************************************************************************)
(* The converters (storage.py)                                             *)
(***************************************************************************)
\* an obd.OBDCommand, an obd.OBDResponse carrying its command, its value and
\* its time, or a command name: the three forms of a FactoryKey
Cmd(name) == [form |-> "cmd", name |-> name, value |-> Num(0), time |-> 0]
Response(name, value, time) ==
    [form |-> "resp", name |-> name, value |-> value, time |-> time]
StrKey(name) == [form |-> "str", name |-> name, value |-> Num(0), time |-> 0]

Raise(err) == [ok |-> FALSE, err |-> err, json |-> NoJson]

\* obd_2_influx_float and obd_2_influx_percent: a packet named after the
\* command, timestamped with response.time, with the one field given
SingleField(response, field) ==
    LET builder == NewBuilder(TRUE, response.name)
        stamped == add_timestamp(builder, response.time)
        fielded == add_fields(stamped.packet, Str(field), response.value)
    IN  IF ~stamped.ok THEN Raise(stamped.err)
        ELSE IF ~fielded.ok THEN Raise(fielded.err)
        ELSE to_json(fielded.packet)

obd_2_influx_dtc(response) == Raise("NotImplementedError")

obd_2_influx_float(response) == SingleField(response, "value")

obd_2_influx_percent(response) == SingleField(response, "percent")

obd_2_influx_status(response) == Raise("NotImplementedError")

ConverterNames == {"float", "percent", "dtc", "status"}

\* converter(response)
RunConverter(converter, response) ==
    CASE converter = "float" -> obd_2_influx_float(response)
      [] converter = "percent" -> obd_2_influx_percent(response)
      [] converter = "dtc" -> obd_2_influx_dtc(response)
      [] converter = "status" -> obd_2_influx_status(response)

(***************************************************************************)
(* InfluxDBConverterFactory (storage.py) and the one obd_influx builds     *)
(***************************************************************************)
\* the registrations of obd_influx/__init__.py, in their order
Registrations ==
    << <<"ACCELERATOR_POS_E", "percent">>,
       <<"COOLANT_TEMP", "float">>,
       <<"DTC_BAROMETRIC_PRESSURE", "float">>,
       <<"DTC_INTAKE_TEMP", "float">>,
       <<"DTC_RUN_TIME", "float">>,
       <<"ELM_VOLTAGE", "float">>,
       <<"RPM", "float">>,
       <<"RUN_TIME", "float">>,
       <<"FREEZE_DTC", "dtc">>,
       <<"GET_DTC", "dtc">>,
       <<"STATUS", "status">> >>

\* obd.commands: the commands registered above and SPEED, which the tests
\* scan; a command a caller builds (CUSTOM) is outside it
Catalog == {Registrations[i][1] : i \in DOMAIN Registrations} \cup {"SPEED"}

has_name(name) == name \in Catalog

convert_to_key(command) ==
    LET named == IF command.form = "resp"
                 THEN [command EXCEPT !.form = "str"]
                 ELSE command
    IN  IF named.form = "cmd"
        THEN [ok |-> TRUE, err |-> NoError, key |-> named.name]
        ELSE IF ~has_name(named.name)
        THEN [ok |-> FALSE, err |-> "ValueError: no command", key |-> ""]
        ELSE [ok |-> TRUE, err |-> NoError, key |-> named.name]

EmptyRegistry == [k \in {} |-> ""]

\* register writing the converter whether or not the key has one
register_overwriting(convs, command, converter) ==
    LET k == convert_to_key(command)
    IN  IF ~k.ok THEN [ok |-> FALSE, err |-> k.err, converters |-> convs]
        ELSE [ok |-> TRUE, err |-> NoError,
              converters |-> DictSet(convs, k.key, converter)]

register(convs, command, converter) ==
    LET k == convert_to_key(command)
    IN  IF ~k.ok THEN [ok |-> FALSE, err |-> k.err, converters |-> convs]
        ELSE IF k.key \in DOMAIN convs
        THEN [ok |-> FALSE, err |-> "ValueError: already registered",
              converters |-> convs]
        ELSE [ok |-> TRUE, err |-> NoError,
              converters |-> DictSet(convs, k.key, converter)]

get_converter(convs, command) ==
    LET k == convert_to_key(command)
    IN  IF ~k.ok THEN [ok |-> FALSE, err |-> k.err, converter |-> ""]
        ELSE IF k.key \notin DOMAIN convs
        THEN [ok |-> FALSE, err |-> "KeyError: no converter",
              converter |-> ""]
        ELSE [ok |-> TRUE, err |-> NoError, converter |-> convs[k.key]]

get_packet(convs, response) ==
    LET c == get_converter(convs, response)
    IN  IF ~c.ok THEN Raise(c.err) ELSE RunConverter(c.converter, response)

RECURSIVE RegisterAll(_, _)
\* the factory after the first n registrations of obd_influx/__init__.py
RegisterAll(convs, n) ==
    IF n = 0 THEN convs
    ELSE register(RegisterAll(convs, n - 1), Cmd(Registrations[n][1]),
                  Registrations[n][2]).converters

\* obd_influx.converter
converter == RegisterAll(EmptyRegistry, Len(Registrations))

(***************************************************************************)
(* The recorders and create_recorder (storage.py)                          *)
(***************************************************************************)
\* an Optional[str]
None == [none |-> TRUE, v |-> ""]
Some(s) == [none |-> FALSE, v |-> s]

\* _RECORDERS: 'influxdb' (storage.py) and 'unittest' (tests/test_scanner.py)
RECORDERS == {"influxdb", "unittest"}

\* the arguments of InfluxDBRecorder.__init__
InfluxKeys == {"host", "port", "database", "username", "password"}

NoRecorder == [none |-> TRUE, backend |-> "", built_from |-> ""]
Recorder(backend, built_from) ==
    [none |-> FALSE, backend |-> backend, built_from |-> built_from]

RaiseR(err) == [ok |-> FALSE, err |-> err, recorder |-> NoRecorder]
ReturnR(recorder) == [ok |-> TRUE, err |-> NoError, recorder |-> recorder]

\* recorder(**config_dict): InfluxDBRecorder takes exactly its five
\* arguments; UnittestRecorder leaves init_from_json abstract and cannot be
\* instantiated
Construct(backend, keys) ==
    IF backend = "influxdb"
    THEN IF keys = InfluxKeys THEN ReturnR(Recorder(backend, "kwargs"))
         ELSE RaiseR("TypeError: arguments")
    ELSE RaiseR("TypeError: abstract class")

\* recorder.init_from_json(config_json): InfluxDBRecorder reads the 'influx'
\* entry; UnittestRecorder inherits the abstract method, which returns None
init_from_json(backend, file) ==
    IF backend = "influxdb"
    THEN IF ~file.influx.present THEN RaiseR("ValueError: no 'influx'")
         ELSE IF InfluxKeys \ file.influx.keys # {}
         THEN RaiseR("ValueError: missing keys")
         ELSE Construct(backend, file.influx.keys)
    ELSE ReturnR(NoRecorder)

NoFile == [none |-> TRUE, name |-> None,
           influx |-> [present |-> FALSE, keys |-> {}]]
File(name, influx) == [none |-> FALSE, name |-> name, influx |-> influx]

\* config_dict is bound only where the file is read (the name is None and a
\* file is given); the keyword arguments are not looked at
create_recorder(name, config_json, kwargs) ==
    LET read == name.none /\ ~config_json.none
        config_dict == [bound |-> read, keys |-> {}]
        recorder_key == IF name.none THEN config_json.name ELSE name
    IN  IF name.none /\ config_json.none
        THEN RaiseR("TypeError: neither 'name' nor 'config_json'")
        ELSE IF read /\ config_json.name.none
        THEN RaiseR("KeyError: no 'name'")
        ELSE IF recorder_key.v \notin RECORDERS
        THEN RaiseR("KeyError: no recorder registered")
        ELSE IF config_json.none
        THEN IF ~config_dict.bound THEN RaiseR("UnboundLocalError")
             ELSE Construct(recorder_key.v, config_dict.keys)
        ELSE init_from_json(recorder_key.v, config_json)

(***************************************************************************)
(* Python floats: IEEE 754 doubles.  A float is its sign (0 for 0.0), a    *)
(* 53-bit significand held in two limbs, hi * 2^27 + lo, in                *)
(* [2^52, 2^53), and an exponent e: sign * (hi * 2^27 + lo) * 2^e.         *)
(* Division rounds to nearest, ties to even.  The exponent is unbounded:   *)
(* no value of the model overflows or underflows.                          *)
(***************************************************************************)
MantissaBits == 53
Limb == 134217728          \* 2^27
HalfLimb == 67108864       \* 2^26
FractionBits == 54         \* bits of a quotient worked out past the point
DigitBits == 3             \* of which this many in one step

Zero == [sign |-> 0, hi |-> 0, lo |-> 0, e |-> 0]

RECURSIVE BitLength(_)
BitLength(n) == IF n = 0 THEN 0 ELSE 1 + BitLength(n \div 2)

RECURSIVE Pow2(_)
Pow2(k) == IF k = 0 THEN 1 ELSE 2 * Pow2(k - 1)

\* float(n) for 0 < n < 2^26
FromInt(n) ==
    [sign |-> 1, hi |-> n * Pow2(26 - BitLength(n)), lo |-> 0,
     e |-> BitLength(n) - MantissaBits]

Neg(x) == [x EXCEPT !.sign = -@]

\* two-limb naturals <<hi, lo>>
Geq(a, b) == a[1] > b[1] \/ (a[1] = b[1] /\ a[2] >= b[2])
Sub(a, b) ==
    IF a[2] >= b[2] THEN <<a[1] - b[1], a[2] - b[2]>>
    ELSE <<a[1] - b[1] - 1, a[2] + Limb - b[2]>>
Scale(a, j) == <<a[1] * j + (a[2] * j) \div Limb, (a[2] * j) % Limb>>
Inc(a) == IF a[2] + 1 = Limb THEN <<a[1] + 1, 0>> ELSE <<a[1], a[2] + 1>>
Halve(a) == <<a[1] \div 2, (a[1] % 2) * HalfLimb + a[2] \div 2>>

\* j * 2^k as a two-limb natural, for j < 8 and k a multiple of 3
DigitAt(j, k) == IF k >= 27 THEN <<j * Pow2(k - 27), 0>> ELSE <<0, j * Pow2(k)>>

\* one octal digit of 8 * r / d, for r < d, and the remainder left
Digit(r, d) ==
    LET r8 == Scale(r, 8)
        b4 == Geq(r8, Scale(d, 4))
        r4 == IF b4 THEN Sub(r8, Scale(d, 4)) ELSE r8
        b2 == Geq(r4, Scale(d, 2))
        r2 == IF b2 THEN Sub(r4, Scale(d, 2)) ELSE r4
        b1 == Geq(r2, d)
    IN  [digit |-> (IF b4 THEN 4 ELSE 0) + (IF b2 THEN 2 ELSE 0)
                   + (IF b1 THEN 1 ELSE 0),
         r |-> IF b1 THEN Sub(r2, d) ELSE r2]

\* the element of a set of one; a value bound this way is worked out once,
\* which keeps the long division linear in the number of digits
The(S) == CHOOSE x \in S : TRUE

\* the quotient digits: digit at bit k, followed by the digits q
Place(digit, k, q) ==
    <<DigitAt(digit, k)[1] + q[1], DigitAt(digit, k)[2] + q[2]>>

RECURSIVE LongDiv(_, _, _)
\* the n bits after the binary point of r / d, for r < d, as the natural q,
\* and the remainder left
LongDiv(r, d, n) ==
    IF n = 0 THEN [q |-> <<0, 0>>, r |-> r]
    ELSE The(UNION {{[q |-> Place(step.digit, n - DigitBits, rest.q),
                      r |-> rest.r] :
                        rest \in {LongDiv(step.r, d, n - DigitBits)}} :
                     step \in {Digit(r, d)}})

\* the quotient x / y rounded, from the digits d of the long division and
\* ge, whether x's significand is at least y's
Round(x, y, ge, d) ==
    LET \* the quotient's 53 leading bits m, the next bit, and whether
        \* anything follows it
        m == IF ge THEN <<HalfLimb \div 2 + Halve(Halve(d.q))[1],
                          Halve(Halve(d.q))[2]>>
             ELSE Halve(d.q)
        next == IF ge THEN Halve(d.q)[2] % 2 = 1 ELSE d.q[2] % 2 = 1
        more == d.r # <<0, 0>> \/ (ge /\ d.q[2] % 2 = 1)
        up == next /\ (more \/ m[2] % 2 = 1)
        r == IF up THEN Inc(m) ELSE m
        carry == r[1] = HalfLimb
    IN  [sign |-> x.sign * y.sign,
         hi |-> IF carry THEN HalfLimb \div 2 ELSE r[1],
         lo |-> IF carry THEN 0 ELSE r[2],
         e |-> x.e - y.e - (MantissaBits - 1) + (IF ge THEN 0 ELSE -1)
               + (IF carry THEN 1 ELSE 0)]

\* x / y for y # 0.0, rounded to nearest, ties to even
Div(x, y) ==
    IF x.sign = 0 THEN Zero
    ELSE LET mx == <<x.hi, x.lo>>
             my == <<y.hi, y.lo>>
             ge == Geq(mx, my)
         IN  The({Round(x, y, ge, d) :
                    d \in {LongDiv(IF ge THEN Sub(mx, my) ELSE mx, my,
                                   FractionBits)}})

One == FromInt(1)

(***************************************************************************)
(* Scanner.frequency (scanner.py)                                          *)
(***************************************************************************)
OBD_MAX_FREQUENCY == 100
OBD_DEFAULT_FREQUENCY == 10

\* an Optional[float]
NoFloat == [none |-> TRUE, v |-> Zero]
SomeFloat(x) == [none |-> FALSE, v |-> x]

\* the setter dividing before it looks at the sign
frequency_set_unchecked(period, value) ==
    LET hz == IF value.none THEN FromInt(OBD_DEFAULT_FREQUENCY) ELSE value.v
    IN  IF hz.sign = 0
        THEN [ok |-> FALSE, err |-> "ZeroDivisionError", loop_time |-> period]
        ELSE [ok |-> hz.sign > 0,
              err |-> IF hz.sign > 0 THEN NoError ELSE "ValueError",
              loop_time |-> Div(One, hz)]

\* the setter: None is the default frequency, a value <= 0.0 is refused
frequency_set(period, value) ==
    IF ~value.none /\ value.v.sign <= 0
    THEN [ok |-> FALSE, err |-> "ValueError", loop_time |-> period]
    ELSE LET hz == IF value.none THEN FromInt(OBD_DEFAULT_FREQUENCY)
                   ELSE value.v
         IN  [ok |-> TRUE, err |-> NoError, loop_time |-> Div(One, hz)]

\* the getter
frequency_get(period) == Div(One, period)

(***************************************************************************)
(* The builder as a state machine: one action per method call              *)
(***************************************************************************)
Measurements == {"m1", "m2"}
Names == {"n1", "n2"}
Scalars == {Str("a"), Num(1)}
Seconds == 0..MaxSeconds

\* the list of the first k names n1, n2, n1, ...
NameList(k) == [i \in 1..k |-> Str(IF i % 2 = 1 THEN "n1" ELSE "n2")]

\* the lists of k values "a", 1, "a", ... and 1, "a", 1, ...
ValueList(k, first) ==
    [i \in 1..k |-> IF (i % 2 = 1) = first THEN Str("a") ELSE Num(1)]

\* a single name, or a list of names
NameArgs == {Str(n) : n \in Names} \cup {List(NameList(k)) : k \in 0..MaxLen}

\* a single value of any type, or a list of values
ValueArgs ==
    Scalars \cup {List(ValueList(k, f)) : k \in 0..MaxLen, f \in BOOLEAN}

\* how many names or values an argument holds: a list its length, else one
Count(arg) == IF arg.kind = "list" THEN Len(arg.v) ELSE 1

\* given and discarded are for start_packet: the measurement it was given,
\* and whether the packet it replaced held a timestamp, a tag or a field
Call(op, mismatch, r, json) ==
    [op |-> op, mismatch |-> mismatch, ok |-> r.ok, err |-> r.err,
     json |-> json, given |-> "", discarded |-> FALSE]

\* the packet holds something a new start has to clear
InProgress(p) ==
    p.started /\ (p.timed \/ DOMAIN p.tags # {} \/ DOMAIN p.fields # {})

Returned == [ok |-> TRUE, err |-> NoError]

NoHist == [started |-> FALSE, stamped |-> FALSE, fielded |-> FALSE]

BuilderStart ==
    /\ \E given \in BOOLEAN, m \in Measurements :
          /\ packet = NewBuilder(given, m)
          /\ hist = [NoHist EXCEPT !.started = given]
    /\ last = Call("init", FALSE, Returned, NoJson)

\* no builder in use
BuilderIdle ==
    /\ packet = NoPacket
    /\ hist = NoHist
    /\ last = Call("init", FALSE, Returned, NoJson)

StartPacket ==
    /\ \E m \in Measurements :
          /\ packet' = start_packet(m)
          /\ last' = [Call("start_packet", FALSE, Returned, NoJson) EXCEPT
                         !.given = m, !.discarded = InProgress(packet)]
          /\ hist' = [NoHist EXCEPT !.started = TRUE]
    /\ UNCHANGED notBuilderVars

AddTags ==
    /\ \E names \in NameArgs, values \in ValueArgs :
          LET r == add_tags(packet, names, values)
          IN  /\ packet' = r.packet
              /\ last' = Call("add_tags", Count(names) # Count(values), r,
                              NoJson)
              /\ UNCHANGED hist
    /\ UNCHANGED notBuilderVars

AddFields ==
    /\ \E names \in NameArgs, values \in ValueArgs :
          LET r == add_fields(packet, names, values)
          IN  /\ packet' = r.packet
              /\ last' = Call("add_fields", Count(names) # Count(values), r,
                              NoJson)
              /\ hist' = [hist EXCEPT
                            !.fielded = @ \/ (r.ok /\ Count(names) > 0)]
    /\ UNCHANGED notBuilderVars

\* add_timestamp(tstamp), and add_timestamp() which reads time.time()
AddTimestamp ==
    /\ \E tstamp \in Seconds :
          LET r == add_timestamp(packet, tstamp)
          IN  /\ packet' = r.packet
              /\ last' = Call("add_timestamp", FALSE, r, NoJson)
              /\ hist' = [hist EXCEPT !.stamped = @ \/ r.ok]
    /\ UNCHANGED notBuilderVars

ToJson ==
    /\ LET r == to_json(packet)
       IN  /\ packet' = packet
           /\ last' = Call("to_json", FALSE, r, r.json)
           /\ UNCHANGED hist
    /\ UNCHANGED notBuilderVars

BuilderNext ==
    \/ StartPacket
    \/ AddTags
    \/ AddFields
    \/ AddTimestamp
    \/ ToJson

(***************************************************************************)
(* The converter factory as a state machine                                *)
(***************************************************************************)
MetricNames == {"RPM", "GET_DTC", "CUSTOM"}
Values == {Num(0), Num(3000)}

FactoryKeys ==
    {Cmd(n) : n \in MetricNames} \cup {StrKey(n) : n \in MetricNames}
    \cup {Response(n, Num(0), 0) : n \in MetricNames}

Responses ==
    {Response(n, v, t) : n \in MetricNames, v \in Values, t \in Seconds}

RCall(op, arg, r, conv, json) ==
    [op |-> op, arg |-> arg, ok |-> r.ok, err |-> r.err,
     converter |-> conv, json |-> json]

\* a factory just built, or the one obd_influx builds when it is imported
RegistryStart ==
    /\ converters \in {EmptyRegistry, converter}
    /\ rlast = RCall("init", Cmd(""), Returned, "", NoJson)

RegistryIdle ==
    /\ converters = converter
    /\ rlast = RCall("init", Cmd(""), Returned, "", NoJson)

Register ==
    /\ \E command \in FactoryKeys, conv \in ConverterNames :
          LET r == register(converters, command, conv)
          IN  /\ converters' = r.converters
              /\ rlast' = RCall("register", command, r, conv, NoJson)
    /\ UNCHANGED notRegistryVars

GetConverter ==
    /\ \E command \in FactoryKeys :
          LET r == get_converter(converters, command)
          IN  /\ converters' = converters
              /\ rlast' = RCall("get_converter", command, r, r.converter,
                                NoJson)
    /\ UNCHANGED notRegistryVars

GetPacket ==
    /\ \E response \in Responses :
          LET c == get_converter(converters, response)
              r == get_packet(converters, response)
          IN  /\ converters' = converters
              /\ rlast' = RCall("get_packet", response, r, c.converter,
                                r.json)
    /\ UNCHANGED notRegistryVars

RegistryNext ==
    \/ Register
    \/ GetConverter
    \/ GetPacket

(***************************************************************************)
(* create_recorder: the arguments are drawn, then the call is made         *)
(***************************************************************************)
RecorderNames == {None, Some("influxdb"), Some("unittest"), Some("bogus")}
KeySets == {{}, {"host", "port"}, InfluxKeys}
InfluxEntries ==
    {[present |-> FALSE, keys |-> {}]}
    \cup {[present |-> TRUE, keys |-> k] : k \in KeySets}
Files == {NoFile} \cup {File(n, i) : n \in RecorderNames, i \in InfluxEntries}

Pending == [done |-> FALSE, ok |-> FALSE, err |-> NoError,
            recorder |-> NoRecorder]

RecorderStart ==
    /\ cr_in \in [name : RecorderNames, config_json : Files, kwargs : KeySets]
    /\ cr_out = Pending

RecorderIdleConfig == [name |-> None, config_json |-> NoFile, kwargs |-> {}]

RecorderIdle ==
    /\ cr_in = RecorderIdleConfig
    /\ cr_out = Pending

CreateRecorder ==
    /\ ~cr_out.done
    /\ LET r == create_recorder(cr_in.name, cr_in.config_json, cr_in.kwargs)
       IN  cr_out' = [done |-> TRUE, ok |-> r.ok, err |-> r.err,
                      recorder |-> r.recorder]
    /\ UNCHANGED cr_in
    /\ UNCHANGED notRecorderVars

RecorderNext == CreateRecorder

(***************************************************************************)
(* Scanner.frequency: each assignment and each read is an action           *)
(***************************************************************************)
\* None, 0.0, -5.0, -10.0, 10.0, 21.55, 49.0 and the whole frequencies up
\* to OBD_MAX_FREQUENCY
FrequencyInputs ==
    {NoFloat, SomeFloat(Zero), SomeFloat(Neg(FromInt(5))),
     SomeFloat(Neg(FromInt(10))), SomeFloat(FromInt(10)),
     SomeFloat(Div(FromInt(2155), FromInt(100))), SomeFloat(FromInt(49))}
    \cup {SomeFloat(FromInt(n)) :
             n \in (OBD_MAX_FREQUENCY - HzSpan)..OBD_MAX_FREQUENCY}

\* kept: the call left the period as it was
FCall(op, value, r, got, valid, kept) ==
    [op |-> op, value |-> value, ok |-> r.ok, err |-> r.err, got |-> got,
     valid |-> valid, kept |-> kept]

\* Scanner.__init__ assigns the frequency it is given, which is None or > 0
\* in a Scanner that was built
FrequencyStart ==
    \E value \in FrequencyInputs :
        LET r == frequency_set(Zero, value)
        IN  /\ r.ok
            /\ loop_time = r.loop_time
            /\ flast = FCall("init", value, r, Zero, value, FALSE)

FrequencyIdle ==
    /\ loop_time = frequency_set(Zero, NoFloat).loop_time
    /\ flast = FCall("init", NoFloat, Returned, Zero, NoFloat, FALSE)

\* scanner.frequency = value; valid keeps the last value that was accepted
SetFrequency ==
    /\ \E value \in FrequencyInputs :
          LET r == frequency_set(loop_time, value)
          IN  /\ loop_time' = r.loop_time
              /\ flast' = FCall("set", value, r, Zero,
                                IF r.ok THEN value ELSE flast.valid,
                                r.loop_time = loop_time)
    /\ UNCHANGED notFrequencyVars

\* scanner.frequency
GetFrequency ==
    /\ flast' = [flast EXCEPT !.op = "get", !.got = frequency_get(loop_time),
                              !.kept = TRUE]
    /\ UNCHANGED loop_time
    /\ UNCHANGED notFrequencyVars

FrequencyNext ==
    \/ SetFrequency
    \/ GetFrequency

(***************************************************************************)
(* The Scanner (scanner.py): the caller's calls and the scanning thread    *)
(***************************************************************************)
\* the commands a Scanner is built with: RPM has the float converter,
\* SPEED has none, GET_DTC has the one that is not implemented
AllCommands == <<"RPM", "SPEED", "GET_DTC">>
CommandLists ==
    {[i \in 1..n |-> AllCommands[((i + k - 1) % Len(AllCommands)) + 1]] :
       n \in 1..MaxCommands, k \in 0..(Len(AllCommands) - 1)}

\* OBDResponse.is_null()
NullResponse == [form |-> "null", name |-> "", value |-> Num(0), time |-> 0]

\* what obd_connection.query(command) may return: a null response, or, from a
\* connected device, a value at some time
QueryResults(command, connected) ==
    {NullResponse}
    \cup (IF connected THEN {Response(command, Num(3000), 1)} ELSE {})

\* is_scanning: there is a thread and it is alive
is_scanning == wpc \notin {"none", "exited", "crashed"}

NotBegun == [scanning |-> FALSE, connected |-> FALSE, after |-> "init"]

NotSlept == [arg |-> Zero, period |-> Zero]

\* a use of obd_connection by a call of the caller: whether the call closed
\* it, and whether a scanning thread was alive then
Access(closed, scanning) == [closed |-> closed, scanning |-> scanning]

NoAccess == Access(FALSE, FALSE)

\* the state in which Scanner.__init__ returns: obd.OBD() has connected or
\* has not (main() looks at is_connected to tell), no thread yet
ScannerStart ==
    /\ commands \in CommandLists
    /\ obd_connected \in BOOLEAN
    /\ e_shutdown = FALSE
    /\ wpc = "none" /\ cmd_ndx = 0 /\ scan_response = NullResponse
    /\ crash = NoError /\ queried = << >> /\ recorded = 0
    /\ threads = 0 /\ slept = NotSlept
    /\ cpc = "idle" /\ begun = NotBegun /\ steps = << >> /\ closes = 0
    /\ lastcall = "init" /\ logged = "" /\ obd_access = NoAccess

ScannerIdle ==
    /\ commands = <<"RPM">>
    /\ obd_connected = FALSE
    /\ e_shutdown = FALSE
    /\ wpc = "none" /\ cmd_ndx = 0 /\ scan_response = NullResponse
    /\ crash = NoError /\ queried = << >> /\ recorded = 0
    /\ threads = 0 /\ slept = NotSlept
    /\ cpc = "idle" /\ begun = NotBegun /\ steps = << >> /\ closes = 0
    /\ lastcall = "init" /\ logged = "" /\ obd_access = NoAccess

\* the caller returns from a call
Return(call) ==
    /\ cpc' = "idle"
    /\ lastcall' = call

Connect ==
    /\ cpc = "idle"
    /\ obd_connected' \in BOOLEAN
    /\ obd_access' = Access(FALSE, is_scanning)
    /\ logged' = ""
    /\ Return("connect")
    /\ UNCHANGED <<commands, e_shutdown, threadVars, begun, steps, closes>>
    /\ UNCHANGED notScannerVars

\* disconnect(): logs an error if not connected, and closes the connection
\* either way
disconnect(connected) ==
    [logged |-> IF connected THEN ""
                ELSE "Scanner not connected to OBD device",
     closed |-> TRUE,
     obd_connected |-> FALSE]

Disconnect ==
    /\ cpc = "idle"
    /\ LET r == disconnect(obd_connected)
       IN  /\ obd_connected' = r.obd_connected
           /\ logged' = r.logged
           /\ obd_access' = Access(r.closed, is_scanning)
    /\ Return("disconnect")
    /\ UNCHANGED <<commands, e_shutdown, threadVars, begun, steps, closes>>
    /\ UNCHANGED notScannerVars

\* start() without its test of is_scanning
start_spawns_always(scanning) == TRUE

\* start() goes on to make a thread unless it finds the Scanner scanning
start_spawns(scanning) == ~scanning

\* a start() that leaves the event as it finds it
start_event_kept(shutdown) == shutdown

\* self._e_shutdown.clear(), before self._scan_thread.start()
start_event(shutdown) == FALSE

Start ==
    /\ cpc = "idle"
    /\ IF start_spawns(is_scanning)
       THEN /\ e_shutdown' = start_event(e_shutdown)
            /\ wpc' = "check"
            /\ cmd_ndx' = 0
            /\ scan_response' = NullResponse
            /\ crash' = NoError
            /\ queried' = << >>
            /\ recorded' = 0
            /\ threads' = threads + 1
            /\ slept' = NotSlept
            /\ logged' = ""
       ELSE /\ logged' = "Scanner already started"
            /\ UNCHANGED <<e_shutdown, threadVars>>
    /\ Return("start")
    /\ UNCHANGED <<commands, obd_connected, begun, steps, closes, obd_access>>
    /\ UNCHANGED notScannerVars

\* stop(): returns at once if not scanning, else sets the event and joins
Stop ==
    /\ cpc = "idle"
    /\ IF is_scanning
       THEN /\ e_shutdown' = TRUE
            /\ cpc' = "stop_join"
            /\ logged' = ""
            /\ UNCHANGED lastcall
       ELSE /\ logged' = "Scanner not started"
            /\ UNCHANGED e_shutdown
            /\ Return("stop")
    /\ UNCHANGED <<commands, obd_connected, threadVars, begun, steps, closes,
                   obd_access>>
    /\ UNCHANGED notScannerVars

\* a join that does not wait for the thread
joined_at_once == TRUE

\* self._scan_thread.join() returns once the thread is not alive
joined == ~is_scanning

StopJoin ==
    /\ cpc = "stop_join"
    /\ joined
    /\ Return("stop")
    /\ UNCHANGED <<commands, obd_connected, e_shutdown, threadVars, begun,
                   steps, closes, logged, obd_access>>
    /\ UNCHANGED notScannerVars

\* shutdown() after its stop(): disconnect() if connected, then closes the
\* recorder, but here without the disconnect
AfterStopConnected(connected, done, closed) ==
    [obd_connected |-> connected, steps |-> done \o <<"close">>,
     closes |-> closed + 1]

\* shutdown() after its stop(): disconnect() if connected, then
\* self._recorder.close()
AfterStop(connected, done, closed) ==
    [obd_connected |-> FALSE,
     steps |-> done \o (IF connected THEN <<"disconnect">> ELSE << >>)
                    \o <<"close">>,
     closes |-> closed + 1]

Finish(done) ==
    LET r == AfterStop(obd_connected, done, closes)
    IN  /\ obd_connected' = r.obd_connected
        /\ steps' = r.steps
        /\ closes' = r.closes
        /\ obd_access' = Access(obd_connected, is_scanning)
        /\ Return("shutdown")

\* shutdown() looks at is_scanning
Shutdown ==
    /\ cpc = "idle"
    /\ closes < MaxShutdowns
    /\ begun' = [scanning |-> is_scanning, connected |-> obd_connected,
                 after |-> lastcall]
    /\ logged' = ""
    /\ IF is_scanning
       THEN /\ cpc' = "shutdown_stop"
            /\ steps' = << >>
            /\ UNCHANGED <<obd_connected, closes, lastcall, obd_access>>
       ELSE Finish(<< >>)
    /\ UNCHANGED <<commands, e_shutdown, threadVars>>
    /\ UNCHANGED notScannerVars

\* shutdown() calls stop(), which looks at is_scanning again
ShutdownStop ==
    /\ cpc = "shutdown_stop"
    /\ IF is_scanning
       THEN /\ e_shutdown' = TRUE
            /\ cpc' = "shutdown_join"
            /\ steps' = <<"stop">>
            /\ UNCHANGED <<obd_connected, closes, lastcall, logged,
                           obd_access>>
       ELSE /\ logged' = "Scanner not started"
            /\ UNCHANGED e_shutdown
            /\ Finish(<<"stop">>)
    /\ UNCHANGED <<commands, threadVars, begun>>
    /\ UNCHANGED notScannerVars

\* the join in stop() returns, and shutdown() goes on
ShutdownJoin ==
    /\ cpc = "shutdown_join"
    /\ joined
    /\ Finish(steps)
    /\ UNCHANGED <<commands, e_shutdown, threadVars, begun, logged>>
    /\ UNCHANGED notScannerVars

\* the frequencies the caller sets on a Scanner that may be scanning: the
\* default, the maximum, and one that is refused
ScanFrequencies ==
    {NoFloat, SomeFloat(FromInt(OBD_MAX_FREQUENCY)), SomeFloat(Zero)}

\* scanner.frequency = value, by the caller
SetScanFrequency ==
    /\ cpc = "idle"
    /\ \E value \in ScanFrequencies :
          LET r == frequency_set(loop_time, value)
          IN  /\ loop_time' = r.loop_time
              /\ logged' = ""
    /\ Return("frequency")
    /\ UNCHANGED <<commands, obd_connected, e_shutdown, threadVars, begun,
                   steps, closes, obd_access>>
    /\ UNCHANGED <<builderVars, registryVars, recorderVars, flast,
                   constructVars>>

\* a loop test that does not look at the event
loop_test_blind(shutdown) == TRUE

\* while not self._e_shutdown.is_set()
loop_test(shutdown) == ~shutdown

\* the test at the top of the loop of _scan_loop
WCheck ==
    /\ wpc = "check"
    /\ e_shutdown \/ Len(queried) < MaxCycles
    /\ wpc' = IF loop_test(e_shutdown) THEN "sleep" ELSE "exited"
    /\ threads' = IF loop_test(e_shutdown) THEN threads ELSE threads - 1
    /\ UNCHANGED <<cmd_ndx, scan_response, crash, queried, recorded, slept>>
    /\ UNCHANGED <<commands, obd_connected, e_shutdown, callerVars>>
    /\ UNCHANGED notScannerVars

\* the seconds the loop sleeps for when the period is period: self.frequency
sleep_time(period) == frequency_get(period)

\* time.sleep(self.frequency)
WSleep ==
    /\ wpc = "sleep"
    /\ wpc' = "query"
    /\ slept' = [arg |-> sleep_time(loop_time), period |-> loop_time]
    /\ UNCHANGED <<cmd_ndx, scan_response, crash, queried, recorded, threads>>
    /\ UNCHANGED <<commands, obd_connected, e_shutdown, callerVars>>
    /\ UNCHANGED notScannerVars

\* response = self._get_response(self._commands[cmd_ndx]); an index past the
\* list raises IndexError, which nothing catches
WQuery ==
    /\ wpc = "query"
    /\ IF cmd_ndx >= Len(commands)
       THEN /\ wpc' = "crashed"
            /\ crash' = "IndexError"
            /\ threads' = threads - 1
            /\ UNCHANGED <<scan_response, queried>>
       ELSE /\ \E r \in QueryResults(commands[cmd_ndx + 1], obd_connected) :
                 /\ scan_response' = r
                 /\ wpc' = IF r.form = "null" THEN "advance" ELSE "record"
            /\ queried' = Append(queried, cmd_ndx)
            /\ UNCHANGED <<crash, threads>>
    /\ UNCHANGED <<cmd_ndx, recorded, slept>>
    /\ UNCHANGED <<commands, obd_connected, e_shutdown, callerVars>>
    /\ UNCHANGED notScannerVars

\* a _record_data that hands the response to self._recorder.record as it is,
\* with no call of converter.get_packet
record_data_unconverted(convs, resp, stored) ==
    IF ~stored
    THEN [ok |-> FALSE, err |-> "RecorderError", invoked |-> TRUE]
    ELSE [ok |-> TRUE, err |-> NoError, invoked |-> TRUE]

\* one call of self._record_data(response) on the factory convs: the packet
\* of converter.get_packet, handed to self._recorder.record, which returns
\* or raises (stored says which); no exception is caught.  invoked: record
\* was called
record_data(convs, resp, stored) ==
    LET p == get_packet(convs, resp)
    IN  IF ~p.ok THEN [ok |-> FALSE, err |-> p.err, invoked |-> FALSE]
        ELSE IF ~stored
        THEN [ok |-> FALSE, err |-> "RecorderError", invoked |-> TRUE]
        ELSE [ok |-> TRUE, err |-> NoError, invoked |-> TRUE]

WRecord ==
    /\ wpc = "record"
    /\ \E stored \in BOOLEAN :
          LET r == record_data(converter, scan_response, stored)
          IN  /\ wpc' = IF r.ok THEN "advance" ELSE "crashed"
              /\ crash' = r.err
              /\ recorded' = IF r.invoked THEN recorded + 1 ELSE recorded
              /\ threads' = IF r.ok THEN threads ELSE threads - 1
    /\ UNCHANGED <<cmd_ndx, scan_response, queried, slept>>
    /\ UNCHANGED <<commands, obd_connected, e_shutdown, callerVars>>
    /\ UNCHANGED notScannerVars

\* (cmd_ndx) + 1 % len(self._commands): % binds tighter than +
next_ndx(ndx, n) == ndx + (1 % n)

WAdvance ==
    /\ wpc = "advance"
    /\ cmd_ndx' = next_ndx(cmd_ndx, Len(commands))
    /\ wpc' = "check"
    /\ UNCHANGED <<scan_response, crash, queried, recorded, threads, slept>>
    /\ UNCHANGED <<commands, obd_connected, e_shutdown, callerVars>>
    /\ UNCHANGED notScannerVars

Next ==
    \/ Connect
    \/ Disconnect
    \/ Start
    \/ Stop
    \/ StopJoin
    \/ Shutdown
    \/ ShutdownStop
    \/ ShutdownJoin
    \/ WCheck
    \/ WSleep
    \/ WQuery
    \/ WRecord
    \/ WAdvance

(***************************************************************************)
(* The construction of a Scanner (scanner.py): Scanner.__init__ and         *)
(* Scanner.init_from_config_file                                           *)
(***************************************************************************)
\* an element of the commands argument: an obd.OBDCommand or something else
CmdArg(is_command, name) == [is_command |-> is_command, name |-> name]

\* what __init__ does when it raises err: made tells whether the Recorder had
\* been constructed by then
Failed(err, made) ==
    [ok |-> FALSE, err |-> err, recorder_made |-> made, opened |-> FALSE,
     connected |-> FALSE, commands |-> << >>, loop_time |-> Zero]

\* __init__ without its tests of the commands
commands_error_none(cmds) == NoError

\* the tests of the commands argument in __init__
commands_error(cmds) ==
    IF Len(cmds) <= 0 THEN "ValueError: No commands provided"
    ELSE IF \E i \in 1..Len(cmds) : ~cmds[i].is_command
    THEN "ValueError: bad commands"
    ELSE NoError

\* a connect() that takes the device for opened
connect_assumed(opens) == [opened |-> TRUE, connected |-> TRUE]

\* connect(): obd.OBD(portstr, baudrate) returns a connection, connected or
\* not (main() looks at is_connected afterwards); nothing is raised
connect(opens) == [opened |-> TRUE, connected |-> opens]

\* Scanner.__init__: the Recorder first (a path and a dict both end in one
\* call of create_recorder), then the commands, the frequency, the connection
scanner_init(recorder_config, cmds, frequency, opens) ==
    LET rec == create_recorder(recorder_config.name,
                               recorder_config.config_json,
                               recorder_config.kwargs)
        freq == frequency_set(Zero, frequency)
        conn == connect(opens)
    IN  IF ~rec.ok THEN Failed(rec.err, FALSE)
        ELSE IF commands_error(cmds) # NoError
        THEN Failed(commands_error(cmds), TRUE)
        ELSE IF ~freq.ok THEN Failed(freq.err, TRUE)
        ELSE [ok |-> TRUE, err |-> NoError, recorder_made |-> TRUE,
              opened |-> conn.opened, connected |-> conn.connected,
              commands |-> [i \in 1..Len(cmds) |-> cmds[i].name],
              loop_time |-> freq.loop_time]

\* the attributes of obd.commands that are not commands
CommandsAttributes == {"has_name"}

\* getattr(obd.commands, cmd)
getattr_commands(cmd) ==
    IF cmd \in Catalog THEN [ok |-> TRUE, value |-> CmdArg(TRUE, cmd)]
    ELSE IF cmd \in CommandsAttributes
    THEN [ok |-> TRUE, value |-> CmdArg(FALSE, cmd)]
    ELSE [ok |-> FALSE, value |-> CmdArg(FALSE, cmd)]

\* Scanner.init_from_config_file: the commands are looked up by name, and
\* the file is the configuration of the Recorder too
init_from_config_file(config_file, opens) ==
    IF \E i \in 1..Len(config_file.commands) :
          ~getattr_commands(config_file.commands[i]).ok
    THEN Failed("ValueError: not valid", FALSE)
    ELSE scanner_init(
             [name |-> None, config_json |-> config_file.recorder,
              kwargs |-> {}],
             [i \in 1..Len(config_file.commands) |->
                getattr_commands(config_file.commands[i]).value],
             config_file.frequency, opens)

\* the arguments drawn for a construction
GoodFile == File(Some("influxdb"), [present |-> TRUE, keys |-> InfluxKeys])
RecorderConfigs ==
    {[name |-> None, config_json |-> GoodFile, kwargs |-> {}],
     [name |-> None, config_json |-> File(None, GoodFile.influx),
      kwargs |-> {}],
     [name |-> Some("influxdb"), config_json |-> NoFile,
      kwargs |-> InfluxKeys],
     [name |-> Some("unittest"), config_json |-> NoFile, kwargs |-> {}]}
CommandArgs ==
    {<< >>, <<CmdArg(TRUE, "RPM")>>,
     <<CmdArg(TRUE, "RPM"), CmdArg(TRUE, "SPEED")>>,
     <<CmdArg(TRUE, "RPM"), CmdArg(FALSE, "SPEED")>>}
CommandNames ==
    {<< >>, <<"RPM">>, <<"RPM", "SPEED">>, <<"RPM", "BOGUS">>,
     <<"has_name">>}
Frequencies ==
    {NoFloat, SomeFloat(FromInt(OBD_MAX_FREQUENCY)), SomeFloat(Zero),
     SomeFloat(Neg(FromInt(OBD_DEFAULT_FREQUENCY)))}
ConfigFiles ==
    [recorder : {GoodFile, File(None, GoodFile.influx)},
     commands : CommandNames, frequency : Frequencies]

NotBuilt ==
    [done |-> FALSE, ok |-> FALSE, err |-> NoError, recorder_made |-> FALSE,
     opened |-> FALSE, device_opens |-> FALSE]

ConstructStart ==
    /\ ctor_in \in
         [form : {"init"}, recorder_config : RecorderConfigs,
          commands : CommandArgs, frequency : Frequencies,
          config_file : {[recorder |-> NoFile, commands |-> << >>,
                          frequency |-> NoFloat]}]
         \cup
         [form : {"config_file"}, recorder_config : {RecorderIdleConfig},
          commands : {<< >>}, frequency : {NoFloat},
          config_file : ConfigFiles]
    /\ ctor_out = NotBuilt

ConstructIdle ==
    /\ ctor_in = [form |-> "none", recorder_config |-> RecorderIdleConfig,
                  commands |-> << >>, frequency |-> NoFloat,
                  config_file |-> [recorder |-> NoFile, commands |-> << >>,
                                   frequency |-> NoFloat]]
    /\ ctor_out = NotBuilt

\* the construction returns a Scanner, whose fields are set, or raises
Built(r, opens) ==
    /\ ctor_out' = [done |-> TRUE, ok |-> r.ok, err |-> r.err,
                    recorder_made |-> r.recorder_made, opened |-> r.opened,
                    device_opens |-> opens]
    /\ IF r.ok
       THEN /\ commands' = r.commands
            /\ loop_time' = r.loop_time
            /\ obd_connected' = r.connected
       ELSE UNCHANGED <<commands, loop_time, obd_connected>>
    /\ UNCHANGED <<ctor_in, e_shutdown, threadVars, callerVars, flast>>
    /\ UNCHANGED <<builderVars, registryVars, recorderVars>>

\* Scanner(portstr, baudrate, commands, recorder_config, frequency)
ScannerInit ==
    /\ ~ctor_out.done
    /\ ctor_in.form = "init"
    /\ \E opens \in BOOLEAN :
          Built(scanner_init(ctor_in.recorder_config, ctor_in.commands,
                             ctor_in.frequency, opens), opens)

\* Scanner.init_from_config_file(config_file)
InitFromConfigFile ==
    /\ ~ctor_out.done
    /\ ctor_in.form = "config_file"
    /\ \E opens \in BOOLEAN :
          Built(init_from_config_file(ctor_in.config_file, opens), opens)

ConstructNext ==
    \/ ScannerInit
    \/ InitFromConfigFile

(***************************************************************************)
(* Specifications                                                          *)
(***************************************************************************)
Init ==
    /\ ScannerStart
    /\ BuilderIdle /\ RegistryIdle /\ RecorderIdle /\ FrequencyIdle
    /\ ConstructIdle

Spec == Init /\ [][Next]_vars

\* the steps of the scanning thread
Worker == WCheck \/ WSleep \/ WQuery \/ WRecord \/ WAdvance

\* a caller that connects, disconnects, starts and stops, with the scanning
\* thread scheduled, its sleep, its query and its record returning, and a join
\* returning once the thread has ended
StopNext ==
    \/ Connect
    \/ Disconnect
    \/ Start
    \/ Stop
    \/ StopJoin
    \/ Worker

SpecStop ==
    Init /\ [][StopNext]_vars /\ WF_vars(Worker) /\ WF_vars(StopJoin)

\* a caller that starts the thread and sets the frequency while it runs
SleepNext ==
    \/ Start
    \/ SetScanFrequency
    \/ Worker

SpecSleep == Init /\ [][SleepNext]_vars

BuilderInit ==
    /\ BuilderStart
    /\ RegistryIdle /\ RecorderIdle /\ FrequencyIdle /\ ScannerIdle
    /\ ConstructIdle

SpecBuilder == BuilderInit /\ [][BuilderNext]_vars

RegistryInit ==
    /\ RegistryStart
    /\ BuilderIdle /\ RecorderIdle /\ FrequencyIdle /\ ScannerIdle
    /\ ConstructIdle

SpecRegistry == RegistryInit /\ [][RegistryNext]_vars

RecorderInit ==
    /\ RecorderStart
    /\ BuilderIdle /\ RegistryIdle /\ FrequencyIdle /\ ScannerIdle
    /\ ConstructIdle

SpecRecorder == RecorderInit /\ [][RecorderNext]_vars

FrequencyInit ==
    /\ FrequencyStart
    /\ BuilderIdle /\ RegistryIdle /\ RecorderIdle /\ ScannerIdle
    /\ ConstructIdle

SpecFrequency == FrequencyInit /\ [][FrequencyNext]_vars

ConstructInit ==
    /\ ConstructStart
    /\ BuilderIdle /\ RegistryIdle /\ RecorderIdle /\ FrequencyIdle
    /\ ScannerIdle

SpecConstruct == ConstructInit /\ [][ConstructNext]_vars

(***************************************************************************)
(* Claims about the builder, under SpecBuilder                             *)
(***************************************************************************)
\* the error to_json owes the caller: that of the first missing prerequisite
\* in the order not started, not timestamped, no fields
FirstMissing(h) ==
    IF ~h.started THEN "RuntimeError: not started"
    ELSE IF ~h.stamped THEN "RuntimeError: not timestamped"
    ELSE IF ~h.fielded THEN "RuntimeError: no fields"
    ELSE NoError

\* C8: to_json returns if and only if a packet was started, and timestamped
\* and given at least one field since that start; otherwise it raises the
\* error of the first missing prerequisite, in the order not started, not
\* timestamped, no fields.
C8_ToJsonPrerequisites ==
    last.op = "to_json" =>
        /\ last.ok <=> (hist.started /\ hist.stamped /\ hist.fielded)
        /\ last.err = FirstMissing(hist)

\* fields were added but no timestamp: to_json reports the timestamp
C8_Witness ==
    /\ last.op = "to_json"
    /\ hist.fielded /\ ~hist.stamped
    /\ last.err = "RuntimeError: not timestamped"

\* C9: add_tags and add_fields raise whenever the names and the values differ
\* in count, and a call that raised leaves the packet as it was.
C9_MismatchRejected ==
    [][last'.op \in {"add_tags", "add_fields"} =>
          /\ last'.mismatch => ~last'.ok
          /\ ~last'.ok => packet' = packet]_vars

\* a mismatching add_tags was rejected on a packet that holds tags, fields
\* and a timestamp
C9_Witness ==
    /\ last.op = "add_tags" /\ last.mismatch /\ ~last.ok
    /\ DOMAIN packet.tags # {} /\ DOMAIN packet.fields # {} /\ packet.timed

(***************************************************************************)
(* Claims about the converters, under SpecRegistry                         *)
(***************************************************************************)
\* the record the float converter owes for a response
FloatRecord(response) ==
    [measurement |-> response.name, time |-> response.time * NanosPerSecond,
     tags |-> EmptyDict, fields |-> DictSet(EmptyDict, "value", response.value)]

\* C2: for a response with a numeric value the float converter returns the
\* record {measurement: M, time: t * 1e9, tags: {}, fields: {value: v}}:
\* add_fields takes a single name with a single value that is no string.
C2_FloatConverterReturns ==
    (rlast.op = "get_packet" /\ rlast.converter = "float") =>
        /\ rlast.ok
        /\ rlast.json = FloatRecord(rlast.arg)

\* C10: a converter once registered stays the one its metric has; register
\* on a metric that has a converter fails, in whichever form the metric is
\* given, and get_converter returns the registered converter in every form
\* that names a metric of the catalog.
C10_OneConverterPerMetric ==
    [][/\ \A k \in DOMAIN converters :
             k \in DOMAIN converters' /\ converters'[k] = converters[k]
       /\ (rlast'.op = "register" /\ rlast'.arg.name \in DOMAIN converters)
             => (~rlast'.ok /\ converters' = converters)
       /\ (rlast'.op = "get_converter" /\ rlast'.ok)
             => rlast'.converter = converters[rlast'.arg.name]
       /\ (rlast'.op = "get_converter" /\ has_name(rlast'.arg.name))
             => (rlast'.ok <=> rlast'.arg.name \in DOMAIN converters)]_vars

\* RPM, registered from its command object by obd_influx, is registered
\* again by name with another converter, and the call fails
C10_Witness ==
    /\ rlast.op = "register" /\ rlast.arg = StrKey("RPM")
    /\ rlast.converter = "dtc"
    /\ rlast.err = "ValueError: already registered"
    /\ converters["RPM"] = "float"

(***************************************************************************)
(* Claims about create_recorder, under SpecRecorder                        *)
(***************************************************************************)
\* the fields a backend's constructor needs
Required(backend) == IF backend = "influxdb" THEN InfluxKeys ELSE {}

\* C3: create_recorder with the name of a registered backend, the fields of
\* that backend and no configuration file returns a Recorder built by the
\* backend's constructor from those fields.
C3_CreateByName ==
    (/\ cr_out.done
     /\ ~cr_in.name.none /\ cr_in.name.v \in RECORDERS
     /\ cr_in.config_json.none
     /\ Required(cr_in.name.v) \subseteq cr_in.kwargs)
        => /\ cr_out.ok
           /\ cr_out.recorder = Recorder(cr_in.name.v, "kwargs")

(***************************************************************************)
(* Claims about Scanner.frequency, under SpecFrequency                     *)
(***************************************************************************)
\* the double nearest to 0.1, 0x1.999999999999ap-4
Tenth == [sign |-> 1, hi |-> 53687091, lo |-> 26843546, e |-> -56]

\* the next double above a positive x
Succ(x) ==
    LET m == Inc(<<x.hi, x.lo>>)
    IN  IF m[1] = HalfLimb
        THEN [x EXCEPT !.hi = HalfLimb \div 2, !.lo = 0, !.e = @ + 1]
        ELSE [x EXCEPT !.hi = m[1], !.lo = m[2]]

\* x is y or one of the two doubles next to y
Adjacent(x, y) == x = y \/ Succ(x) = y \/ Succ(y) = x

\* the frequency in force: the last value accepted, None being the default
InForce(valid) ==
    IF valid.none THEN FromInt(OBD_DEFAULT_FREQUENCY) ELSE valid.v

C1_RoundRobin ==
    /\ \A k \in 1..Len(queried) : queried[k] = (k - 1) % Len(commands)
    /\ wpc = "query" => cmd_ndx \in 0..(Len(commands) - 1)

\* C4: an exception raised by the conversion or by Recorder.record does not
\* end the scanning thread: the only thing that ends it is the shutdown
\* event, so a thread that has ended by an exception has not ended by one
\* from recording a response.
C4_WorkerSurvivesFailure ==
    wpc = "crashed" => crash = "IndexError"

\* C5: of two shutdown() calls in succession, the second does not close the
\* Recorder again.
C5_SecondShutdownNoClose ==
    (cpc = "idle" /\ lastcall = "shutdown" /\ begun.after = "shutdown")
        => \A i \in 1..Len(steps) : steps[i] # "close"

\* C6: when shutdown() has returned, no scanning thread is alive, the device
\* is disconnected and the Recorder has been closed, and the call has done, in
\* this order: stop() if it found the Scanner scanning, disconnect() if it
\* found it connected, and the Recorder's close().
C6_ShutdownEndsClean ==
    (cpc = "idle" /\ lastcall = "shutdown")
        => /\ ~is_scanning
           /\ ~obd_connected
           /\ closes >= 1
           /\ steps = (IF begun.scanning THEN <<"stop">> ELSE << >>)
                      \o (IF begun.connected THEN <<"disconnect">> ELSE << >>)
                      \o <<"close">>

\* shutdown() has returned after finding the Scanner scanning and connected,
\* and the thread it joined had gone through a cycle
C6_Witness ==
    /\ cpc = "idle" /\ lastcall = "shutdown"
    /\ begun.scanning /\ begun.connected
    /\ wpc = "exited" /\ Len(queried) >= 1
    /\ steps = <<"stop", "disconnect", "close">>

\* C11: start() while a scanning thread is alive leaves the thread, the
\* event and the count of threads as they are; otherwise it makes exactly one
\* thread.  At most one scanning thread is alive at any time, and there is
\* one exactly when the Scanner is scanning.
C11_OneWorker ==
    /\ [](threads <= 1 /\ (is_scanning <=> threads = 1))
    /\ [][Start => IF is_scanning
                   THEN UNCHANGED <<threadVars, e_shutdown>>
                   ELSE threads' = threads + 1 /\ wpc' = "check"]_vars

\* start() has been called on a scanning Scanner, which is still scanning
\* with its one thread
C11_Witness ==
    /\ lastcall = "start" /\ logged = "Scanner already started"
    /\ is_scanning /\ threads = 1

\* C12: stop() on a scanning Scanner sets the event, and when it has returned
\* no scanning thread is alive; it does return, the thread being scheduled and
\* its calls returning.  stop() on a Scanner that is not scanning leaves the
\* event and everything else of the Scanner as it is.
C12_StopJoins ==
    /\ [](cpc = "stop_join" => e_shutdown)
    /\ []((cpc = "idle" /\ lastcall = "stop" /\ logged = "")
            => (~is_scanning /\ e_shutdown))
    /\ (cpc = "stop_join" ~> (cpc = "idle" /\ lastcall = "stop"))
    /\ [][(Stop /\ ~is_scanning)
            => UNCHANGED <<commands, obd_connected, e_shutdown, threadVars,
                           closes, loop_time>>]_vars

\* stop() has returned from joining a thread that went through a cycle and
\* ended at the event
C12_Witness ==
    /\ cpc = "idle" /\ lastcall = "stop" /\ logged = ""
    /\ wpc = "exited" /\ Len(queried) >= 1

EmptyCommands ==
    \/ ctor_in.form = "init" /\ ctor_in.commands = << >>
    \/ ctor_in.form = "config_file" /\ ctor_in.config_file.commands = << >>

\* the configuration file names something outside the catalog
OutsideCatalog ==
    /\ ctor_in.form = "config_file"
    /\ \E i \in 1..Len(ctor_in.config_file.commands) :
          ctor_in.config_file.commands[i] \notin Catalog

\* no Scanner was returned, no connection opened and no thread started
NothingBuilt ==
    /\ ~ctor_out.ok
    /\ ~ctor_out.opened
    /\ wpc = "none" /\ threads = 0

RecorderArgs ==
    IF ctor_in.form = "init" THEN ctor_in.recorder_config
    ELSE [name |-> None, config_json |-> ctor_in.config_file.recorder,
          kwargs |-> {}]

C14_DisconnectNoOp ==
    (cpc = "idle" /\ lastcall = "disconnect"
       /\ logged = "Scanner not connected to OBD device")
        => ~obd_access.closed

\* C17: in every cycle of the scanning thread the device is queried exactly
\* once; a response that is not null is handed to Recorder.record exactly
\* once, a null one is not recorded and not asked for again, and the next
\* cycle is for the next command.
C17_OncePerCycle ==
    [][/\ WQuery => queried' = Append(queried, cmd_ndx)
       /\ (WQuery /\ scan_response'.form = "null")
             => (wpc' = "advance" /\ recorded' = recorded)
       /\ WRecord => (recorded' = recorded + 1 /\ wpc' = "advance")
       /\ WAdvance => cmd_ndx' = (cmd_ndx + 1) % Len(commands)]_vars

\* C18: at the start of each cycle the scanning thread sleeps for the loop
\* period in force then, 1/f seconds for a frequency of f Hz
C18_SleepsPeriod ==
    (wpc \in {"query", "record", "advance"}) => slept.arg = slept.period

\* C19: connect, disconnect, start and stop move between Disconnected,
\* Connected and Scanning only; while the scanning thread is alive the
\* device is connected.
C19_ScanningIsConnected == is_scanning => obd_connected

\* C20: the caller never uses the device connection while the scanning
\* thread is alive.
C20_CallerOutsideScanning == ~obd_access.scanning

\* the order of the steps of one cycle of _scan_loop
CycleSteps ==
    {<<"check", "sleep">>, <<"check", "exited">>, <<"sleep", "query">>,
     <<"query", "record">>, <<"query", "advance">>, <<"query", "crashed">>,
     <<"record", "advance">>, <<"record", "crashed">>, <<"advance", "check">>}

\* C21: the scanning thread tests the event once per cycle, at the top of the
\* loop.  Setting the event moves nothing of the thread (a query under way
\* goes on); the thread's steps follow the cycle in order, so that after the
\* event is set it sleeps, queries and records at most once more, and at the
\* next test it ends without another cycle.
C21_OneCheckPerCycle ==
    /\ [][Worker => /\ <<wpc, wpc'>> \in CycleSteps
                    /\ e_shutdown' = e_shutdown
                    /\ (wpc = "check" /\ e_shutdown)
                          => (wpc' = "exited" /\ threads' = threads - 1)
                    /\ (wpc = "check" /\ ~e_shutdown) => wpc' = "sleep"]_vars
    /\ [][(~e_shutdown /\ e_shutdown') => UNCHANGED threadVars]_vars

\* stop() has set the event while the thread holds a response to record
C21_Witness ==
    /\ cpc = "stop_join" /\ e_shutdown
    /\ wpc = "record" /\ threads = 1

\* C22: start() clears the event before the new thread runs: the thread it
\* starts finds the event clear at its first test, unless stop() or
\* shutdown() has set it since and is waiting for the thread.
C22_NoStaleSignal ==
    /\ [][(Start /\ ~is_scanning) => (~e_shutdown' /\ wpc' = "check")]_vars
    /\ []((wpc = "check" /\ queried = << >> /\ e_shutdown)
            => cpc \in {"stop_join", "shutdown_join"})

\* a thread started after a shutdown() that called stop(), at its first test
\* with the event clear
C22_Witness ==
    /\ closes >= 1 /\ begun.scanning /\ steps # << >> /\ steps[1] = "stop"
    /\ lastcall = "start" /\ cpc = "idle"
    /\ wpc = "check" /\ queried = << >> /\ ~e_shutdown

C16_StartResets ==
    /\ last.op = "start_packet"
          => /\ measurement(packet) = [none |-> FALSE, v |-> last.given]
             /\ timestamp(packet).none
             /\ DOMAIN packet.tags = {}
             /\ DOMAIN packet.fields = {}
    /\ ~hist.started => (timestamp(packet).none /\ measurement(packet).none)

\* start_packet has returned after replacing a packet in progress
C16_Witness ==
    /\ last.op = "start_packet" /\ last.discarded
    /\ timestamp(packet).none /\ DOMAIN packet.fields = {}

====
